---- MODULE Spec2Model ----
(***************************************************************************)
(* A model of the cockpit/backboard diagnostics core:                      *)
(*   - histogramdd and histogram2d  (backboard/quantities/utils_hists.py)  *)
(*   - merging of BatchGradTransforms requests (cockpit, seen through its  *)
(*     tests)                                                              *)
(*   - the per-quantity time series written on due steps                   *)
(*                                                                         *)
(* Real numbers are modelled exactly, as integers counting halves: the     *)
(* value 0.5 is 1, the value 1.0 is 2.  Floating point rounding is not     *)
(* modelled.  Exceptions are modelled as the status of the returned record.*)
(***************************************************************************)
EXTENDS Integers, Sequences, FiniteSets, TLC

(***************************************************************************)
(* Bounds of the model.                                                    *)
(***************************************************************************)
MaxD == 2
MaxN == 2
MaxVal == 2
MaxBins == 2
Far == 100
MaxRequests == 2
MaxInterval == 2
MaxOffset == 1
MaxStep == 3
MaxTrackVal == 2
NumParams == 1
MaxRate == 2
MaxCalls == 3

(***************************************************************************)
(* Program constants.                                                      *)
(***************************************************************************)
\* the padding 0.5 of a singular range, in halves
Half == 1
\* bins = 10 when bins is None
DefaultBins == 10

NoneVal == "None"
NotCalled == "NotCalled"

(***************************************************************************)
(* Arithmetic helpers.                                                     *)
(***************************************************************************)
Min2(a, b) == IF a <= b THEN a ELSE b

Max2(a, b) == IF a >= b THEN a ELSE b

SetMin(S) == CHOOSE x \in S : \A y \in S : x <= y

SetMax(S) == CHOOSE x \in S : \A y \in S : x >= y

\* Tensor.long(): the rational p/q (q # 0) truncated toward zero
Trunc(p, q) ==
    LET pp == IF q < 0 THEN 0 - p ELSE p
        qq == IF q < 0 THEN 0 - q ELSE q
    IN  IF pp >= 0 THEN pp \div qq ELSE 0 - ((0 - pp) \div qq)

\* the sum of s[a..b], by halves
RECURSIVE SumRange(_, _, _)
SumRange(s, a, b) ==
    IF a > b THEN 0
    ELSE IF a = b THEN s[a]
    ELSE SumRange(s, a, (a + b) \div 2) + SumRange(s, ((a + b) \div 2) + 1, b)

SeqSum(s) == SumRange(s, 1, Len(s))

RECURSIVE SeqProd(_)
SeqProd(s) == IF s = <<>> THEN 1 ELSE Head(s) * SeqProd(Tail(s))

\* the product of s[i] + 2 over the positions after d
StrideAfter(s, d) == SeqProd([i \in 1..(Len(s) - d) |-> s[d + i] + 2])

\* the product of s[i] over the positions after d
PlainStrideAfter(s, d) == SeqProd([i \in 1..(Len(s) - d) |-> s[d + i]])

Fill(n, v) == [i \in 1..n |-> v]

(***************************************************************************)
(* histogramdd: the result record.  A raised exception is a status other   *)
(* than "ok"; the locals the call had computed when it ended (the resolved *)
(* bin counts, the resolved and the padded range, the bin indices) are     *)
(* kept in the record so that properties can speak about them.             *)
(***************************************************************************)
Blank ==
    [status |-> "ok", msg |-> "", stage |-> "start", custom |-> FALSE,
     counts |-> <<>>, lo0 |-> <<>>, hi0 |-> <<>>, lo |-> <<>>, hi |-> <<>>,
     k |-> <<>>, hist |-> <<>>, shape |-> <<>>, edges |-> <<>>]

Raise(rec, status, msg) == [rec EXCEPT !.status = status, !.msg = msg]

(***************************************************************************)
(* Lines 51-89: the bins argument resolved to per-dimension bin counts.    *)
(* bins is [kind, val]:                                                    *)
(*   "none"         bins=None                                              *)
(*   "int"          one int for all dimensions, val = <<b>>                *)
(*   "tensor"       a 1-D tensor of counts                                 *)
(*   "tensor_edges" a 2-D tensor, one row of edges per dimension           *)
(*   "seq_ints"     a list or tuple of ints                                *)
(*   "seq_edges"    a list or tuple of 1-D edge tensors                    *)
(* uninit is the content of the memory torch.empty returned.               *)
(***************************************************************************)
\* line 66: the dimension check of a tensor bins argument
DimMismatch(M, D) == M # D

\* a check that lets a bin count of 0 pass
AnyNegative(counts) == \E i \in 1..Len(counts) : counts[i] < 0

\* line 88: torch.any(bins <= 0)
AnyNonPositive(counts) == \E i \in 1..Len(counts) : counts[i] <= 0

ResolveBins(bins, D, uninit) ==
    LET v == bins.val
        base == [Blank EXCEPT !.stage = "bins"]
        r == CASE bins.kind = "none" ->
                    [base EXCEPT !.counts = Fill(D, DefaultBins)]
               [] bins.kind = "int" ->
                    [base EXCEPT !.counts = Fill(D, v[1])]
               [] bins.kind = "tensor" ->
                    IF DimMismatch(Len(v), D)
                    THEN Raise(base, "ValueError", "dim")
                    ELSE [base EXCEPT !.counts = v]
               [] bins.kind = "tensor_edges" ->
                    IF DimMismatch(Len(v), D)
                    THEN Raise(base, "ValueError", "dim")
                    ELSE [base EXCEPT !.counts = Fill(D, Len(v[1]) - 1),
                                      !.custom = TRUE, !.edges = v]
               [] bins.kind = "seq_ints" ->
                    [base EXCEPT !.counts = v]
               [] bins.kind = "seq_edges" ->
                    IF Len(v) > D
                    THEN Raise(base, "IndexError", "bins[i]")
                    ELSE [base EXCEPT
                            !.counts = [i \in 1..D |->
                                          IF i <= Len(v) THEN Len(v[i]) - 1
                                                         ELSE uninit],
                            !.custom = TRUE, !.edges = v]
    IN  IF r.status # "ok" THEN r
        ELSE IF AnyNonPositive(r.counts) THEN Raise(r, "ValueError", "bins")
        ELSE r

(***************************************************************************)
(* Lines 112-132: the range argument resolved to per-dimension (min, max). *)
(* range is [kind, items, lo, hi]:                                         *)
(*   "none"   range=None                                                   *)
(*   "seq"    a sequence of items [absent, lo, hi]: None or a (min, max)   *)
(*   "tensor" a 2 x D tensor, the rows lo and hi                           *)
(* sample is D rows of N values.                                           *)
(***************************************************************************)
\* the default range [0, 1] of an empty sample
DefaultLo == 0

DefaultHi == 2 * Half

\* lines 118-119: torch.min(sample, 1)[0], torch.max(sample, 1)[0]
RowValues(sample, N, i) == {sample[i][j] : j \in 1..N}

\* lines 130-131: sample[:, i]
ColumnValues(sample, D, i) == {sample[d][i] : d \in 1..D}

ResolveRange(range, sample, D, N) ==
    LET v == range.items
        base == [err |-> "ok", lo |-> <<>>, hi |-> <<>>]
    IN  CASE range.kind = "none" ->
               IF N = 0
               THEN [base EXCEPT !.lo = Fill(D, DefaultLo), !.hi = Fill(D, DefaultHi)]
               ELSE [base EXCEPT
                       !.lo = [i \in 1..D |-> SetMin(RowValues(sample, N, i))],
                       !.hi = [i \in 1..D |-> SetMax(RowValues(sample, N, i))]]
          [] range.kind = "tensor" ->
               [base EXCEPT !.lo = range.lo, !.hi = range.hi]
          [] range.kind = "seq" ->
               IF \E i \in 1..D :
                     \/ i > Len(v)
                     \/ v[i].absent /\ N # 0 /\ i > N
               THEN [base EXCEPT !.err = "IndexError"]
               ELSE [base EXCEPT
                       !.lo = [i \in 1..D |->
                                 IF ~v[i].absent THEN v[i].lo
                                 ELSE IF N = 0 THEN DefaultLo
                                 ELSE SetMin(ColumnValues(sample, D, i))],
                       !.hi = [i \in 1..D |->
                                 IF ~v[i].absent THEN v[i].hi
                                 ELSE IF N = 0 THEN DefaultHi
                                 ELSE SetMax(ColumnValues(sample, D, i))]]

\* lines 133-137: a range of one point is padded by 0.5 on both sides
PadLo(lo, hi) == [i \in 1..Len(lo) |-> IF lo[i] = hi[i] THEN lo[i] - Half ELSE lo[i]]

\* the padding of the lower bound alone
PadHiMissing(lo, hi) == hi

PadHi(lo, hi) == [i \in 1..Len(hi) |-> IF lo[i] = hi[i] THEN hi[i] + Half ELSE hi[i]]

\* line 138: torch.any(range[0] > range[1])
AnyInverted(lo, hi) == \E i \in 1..Len(lo) : lo[i] > hi[i]

\* lines 140-143: torch.linspace(lo, hi, b + 1), as numerators over the
\* denominator b: the j-th edge is lo + j * (hi - lo) / b
Linspace(lo, hi, b) == [num |-> [j \in 1..(b + 1) |-> lo * b + (j - 1) * (hi - lo)], den |-> b]

\* lines 144-153: the bin index of x, 1 + (x - lo) * b / (hi - lo) truncated,
\* then clamped to the underflow bin 0 and the overflow bin b + 1
UniformIndex(x, lo, hi, b) ==
    Min2(Max2(Trunc((hi - lo) + (x - lo) * b, hi - lo), 0), b + 1)

\* line 105: torch.searchsorted(edges, sample), the number of edges below x
SearchSorted(row, x) == Cardinality({j \in 1..Len(row) : row[j] < x})

\* lines 95-101: the edge lists as one D x m tensor, short rows filled with
\* their last edge
PaddedEdges(edges, D) ==
    LET m == SetMax({Len(edges[i]) : i \in 1..Len(edges)})
    IN  [i \in 1..D |-> [j \in 1..m |->
            IF j <= Len(edges[i]) THEN edges[i][j] ELSE edges[i][Len(edges[i])]]]

\* line 106: the searched index clamped to the overflow bin
CustomIndex(row, x, b) == Min2(SearchSorted(row, x), b + 1)

\* the (M, 1) bins tensor broadcast against the (D, N) index tensor
BinAt(counts, d) == counts[IF Len(counts) = 1 THEN 1 ELSE d]

(***************************************************************************)
(* Lines 112-153: the uniform path, from the resolved bin counts rb to the  *)
(* bin index of every observation.                                         *)
(***************************************************************************)
UniformBinning(rb, sample, D, N, range) ==
    LET rr == ResolveRange(range, sample, D, N)
        M == Len(rb.counts)
    IN  IF rr.err # "ok"
        THEN Raise([rb EXCEPT !.stage = "range"], rr.err, "sample[:, i]")
        ELSE
        LET lo == PadLo(rr.lo, rr.hi)
            hi == PadHi(rr.lo, rr.hi)
            r1 == [rb EXCEPT !.stage = "padded", !.lo0 = rr.lo, !.hi0 = rr.hi,
                             !.lo = lo, !.hi = hi]
        IN  IF AnyInverted(lo, hi) THEN Raise(r1, "ValueError", "range")
            ELSE IF M > D THEN Raise(r1, "IndexError", "range[0, i]")
            ELSE IF M # D /\ M # 1 THEN Raise(r1, "RuntimeError", "broadcast")
            ELSE [r1 EXCEPT
                    !.stage = "binning",
                    !.edges = [i \in 1..M |-> Linspace(lo[i], hi[i], rb.counts[i])],
                    !.k = [d \in 1..D |-> [j \in 1..N |->
                             UniformIndex(sample[d][j], lo[d], hi[d],
                                          BinAt(rb.counts, d))]]]

\* the stages of a call that has run lines 136-137
PastPadding == {"padded", "binning", "assert", "reshape", "core", "done"}

\* lines 133-137: the padding is written in place into the tensor that range
\* names.  For range=None and for a sequence that is a tensor made on lines
\* 113 and 121; for a tensor argument it is the caller's own tensor, which
\* holds the padded bounds once the call has passed line 137.
RangeAfter(range, rec) ==
    IF range.kind = "tensor" /\ ~rec.custom /\ rec.stage \in PastPadding
    THEN [range EXCEPT !.lo = rec.lo, !.hi = rec.hi]
    ELSE range

(***************************************************************************)
(* Lines 90-110: the path of explicit edges.  isList: the edges came as a  *)
(* list of tensors (use_old_edges) and not as one 2-D tensor.              *)
(***************************************************************************)
CustomBinning(rb, sample, D, N, isList) ==
    IF isList /\ Len(rb.edges) < D
    THEN Raise([rb EXCEPT !.stage = "edges"], "IndexError", "edges[i]")
    ELSE
    LET rows == IF isList THEN PaddedEdges(rb.edges, D) ELSE rb.edges
    IN  [rb EXCEPT
           !.stage = "binning",
           !.edges = [i \in 1..D |-> [num |-> rb.edges[i], den |-> 1]],
           !.k = [d \in 1..D |-> [j \in 1..N |->
                    CustomIndex(rows[d], sample[d][j], rb.counts[d])]]]

(***************************************************************************)
(* Lines 155-170: the flat index of every observation, the counts, the     *)
(* reshape and the removal of the overflow bins.                           *)
(***************************************************************************)
\* lines 155-157: ones, then cumprod of the flipped tail + 2, then flipped
Multiindex(counts) ==
    LET M == Len(counts)
        flipped == [i \in 1..(M - 1) |-> counts[M + 1 - i] + 2]
        pre == <<1>> \o [j \in 1..(M - 1) |-> SeqProd(SubSeq(flipped, 1, j))]
    IN  [d \in 1..M |-> pre[M + 1 - d]]

\* lines 158-159: k *= multiindex; l = torch.sum(k, 0)
FlatIndex(k, counts, D, N) ==
    LET mi == Multiindex(counts)
    IN  [j \in 1..N |-> SeqSum([d \in 1..D |-> k[d][j] * BinAt(mi, d)])]

\* a bincount that marks the cells hit instead of counting the hits
BincountNoAccumulate(l, minlength) ==
    LET top == IF l = <<>> THEN 0 ELSE SetMax({l[j] : j \in 1..Len(l)}) + 1
    IN  [c \in 1..Max2(minlength, top) |->
            IF \E j \in 1..Len(l) : l[j] = c - 1 THEN 1 ELSE 0]

\* line 163: torch.bincount(l, minlength)
Bincount(l, minlength) ==
    LET top == IF l = <<>> THEN 0 ELSE SetMax({l[j] : j \in 1..Len(l)}) + 1
    IN  [c \in 1..Max2(minlength, top) |->
            Cardinality({j \in 1..Len(l) : l[j] = c - 1})]

\* lines 166-168: hist[D * (slice(1, -1),)] of the row-major hist of shape
\* counts + 2: the cell f of the result is the cell of hist one further
\* along every dimension
CoreSource(f, counts) ==
    SeqSum([d \in 1..Len(counts) |->
              (((f \div PlainStrideAfter(counts, d)) % counts[d]) + 1)
                 * StrideAfter(counts, d)])

Core(hist, counts) ==
    [f \in 1..SeqProd(counts) |-> hist[CoreSource(f - 1, counts) + 1]]

Accumulate(rec, D, N, weights, remove_overflow) ==
    LET counts == rec.counts
        M == Len(counts)
        l == FlatIndex(rec.k, counts, D, N)
        minlength == Multiindex(counts)[1] * (counts[1] + 2)
        padded == [i \in 1..M |-> counts[i] + 2]
    IN  IF weights # NoneVal
        THEN Raise([rec EXCEPT !.stage = "assert"], "AssertionError", "weights")
        ELSE
        LET h == Bincount(l, minlength)
        IN  IF Len(h) # SeqProd(padded)
            THEN Raise([rec EXCEPT !.stage = "reshape"], "RuntimeError", "reshape")
            ELSE IF ~remove_overflow
            THEN [rec EXCEPT !.stage = "done", !.hist = h, !.shape = padded]
            ELSE IF D > M
            THEN Raise([rec EXCEPT !.stage = "core"], "IndexError", "too many indices")
            ELSE [rec EXCEPT !.stage = "done", !.hist = Core(h, counts),
                             !.shape = counts]

(***************************************************************************)
(* histogramdd(sample, bins, range, weights, remove_overflow).             *)
(***************************************************************************)
Histogramdd(sample, D, N, bins, range, weights, remove_overflow, uninit) ==
    LET rb == ResolveBins(bins, D, uninit)
    IN  IF rb.status # "ok" THEN rb
        ELSE
        LET rk == IF rb.custom
                  THEN CustomBinning(rb, sample, D, N, bins.kind = "seq_edges")
                  ELSE UniformBinning(rb, sample, D, N, range)
        IN  IF rk.status # "ok" THEN rk
            ELSE Accumulate(rk, D, N, weights, remove_overflow)

(***************************************************************************)
(* histogram2d(sample, bins, range, check_input): lines 173-211.           *)
(* bins is <<xbins, ybins>>, range is <<[lo, hi], [lo, hi]>>.  ub is what  *)
(* the cast of a non-finite quotient to long yields (a zero bin width).    *)
(***************************************************************************)
\* lines 199-200: ((x - min) / bin_width).long(), bin_width = (max - min) / b
Cast2d(x, lo, hi, b, ub) ==
    IF hi = lo THEN ub ELSE Trunc((x - lo) * b, hi - lo)

\* the flat index with the stride of the wrong axis
Index2dWrongStride(ix, iy, xbins, ybins) == xbins * ix + iy

\* lines 199-200: idx = ybins * xindex + yindex
Index2d(ix, iy, xbins, ybins) == ybins * ix + iy

\* line 204: hist.put_(idx, ones, accumulate=True); a negative index counts
\* from the end
Put(idx, numel) ==
    [c \in 1..numel |->
        Cardinality({j \in 1..Len(idx) :
                        (IF idx[j] < 0 THEN idx[j] + numel ELSE idx[j]) = c - 1})]

\* lines 178-194: the asserts of check_input
StrictlyInside(row, N, lo, hi) ==
    /\ SetMin({row[j] : j \in 1..N}) > lo
    /\ SetMax({row[j] : j \in 1..N}) < hi

Histogram2d(sample, N, bins, range, check_input, ub) ==
    LET xbins == bins[1]
        ybins == bins[2]
        base == [status |-> "ok", msg |-> "", hist |-> <<>>, shape |-> <<>>,
                 edges |-> <<>>, check_input |-> check_input]
        idx == [j \in 1..N |->
                  Index2d(Cast2d(sample[1][j], range[1].lo, range[1].hi, xbins, ub),
                          Cast2d(sample[2][j], range[2].lo, range[2].hi, ybins, ub),
                          xbins, ybins)]
        numel == xbins * ybins
    IN  IF check_input /\ N = 0
        THEN Raise(base, "RuntimeError", "min of an empty tensor")
        ELSE IF check_input
                /\ ~(/\ StrictlyInside(sample[1], N, range[1].lo, range[1].hi)
                     /\ StrictlyInside(sample[2], N, range[2].lo, range[2].hi))
        THEN Raise(base, "AssertionError", "sample outside range")
        ELSE IF xbins = 0 \/ ybins = 0
        THEN Raise(base, "ZeroDivisionError", "bin width")
        ELSE IF \E j \in 1..N : idx[j] >= numel \/ idx[j] < 0 - numel
        THEN Raise(base, "IndexError", "put_ out of range")
        ELSE [base EXCEPT
                !.hist = Put(idx, numel),
                !.shape = <<xbins, ybins>>,
                !.edges = <<Linspace(range[1].lo, range[1].hi, xbins),
                            Linspace(range[2].lo, range[2].hi, ybins)>>]

(***************************************************************************)
(* The state: the arguments of a call and what the call gave.              *)
(***************************************************************************)
VARIABLES D, N, sample, bins, range, weights, remove_overflow, out, out2d,
          range_after,
          requests, merged, remerged,
          schedule, output, processed, last_step,
          iter_tracking, last_call, ncalls

histVars ==
    <<D, N, sample, bins, range, weights, remove_overflow, out, out2d, range_after>>

mergeVars == <<requests, merged, remerged>>

trackVars == <<schedule, output, processed, last_step>>

iterVars == <<iter_tracking, last_call, ncalls>>

vars == <<histVars, mergeVars, trackVars, iterVars>>

(***************************************************************************)
(* The arguments the model draws.                                          *)
(***************************************************************************)
Vals == 0..MaxVal

BinCounts == 0..MaxBins

\* what uninitialised memory and an undefined cast may hold
Garbage == {0 - Far, 0, Far}

Samples(d, n) == [1..d -> [1..n -> Vals]]

\* strictly increasing edge arrays of len edges
EdgeArrays(len) == {s \in [1..len -> Vals] : \A i \in 1..(len - 1) : s[i] < s[i + 1]}

AllEdgeArrays == UNION {EdgeArrays(len) : len \in 1..(MaxBins + 1)}

UniformBins ==
    {[kind |-> "none", val |-> <<>>]}
    \cup {[kind |-> "int", val |-> <<b>>] : b \in BinCounts}
    \cup UNION {{[kind |-> "tensor", val |-> v] : v \in [1..m -> BinCounts]} : m \in 1..MaxD}
    \cup UNION {{[kind |-> "seq_ints", val |-> v] : v \in [1..m -> BinCounts]} : m \in 1..MaxD}

EdgeBins ==
    UNION {{[kind |-> "seq_edges", val |-> v] : v \in [1..m -> AllEdgeArrays]} : m \in 1..MaxD}
    \cup UNION {UNION {{[kind |-> "tensor_edges", val |-> v] : v \in [1..m -> EdgeArrays(len)]}
                          : len \in 1..(MaxBins + 1)} : m \in 1..MaxD}

RangeItems ==
    {[absent |-> TRUE, lo |-> 0, hi |-> 0]}
    \cup {[absent |-> FALSE, lo |-> a, hi |-> b] : a \in Vals, b \in Vals}

NoRange == [kind |-> "none", items |-> <<>>, lo |-> <<>>, hi |-> <<>>]

Ranges(d) ==
    {NoRange}
    \cup {[kind |-> "seq", items |-> v, lo |-> <<>>, hi |-> <<>>] : v \in [1..d -> RangeItems]}
    \cup {[kind |-> "tensor", items |-> <<>>, lo |-> a, hi |-> b] :
             a \in [1..d -> Vals], b \in [1..d -> Vals]}

NotCalledDD == [Blank EXCEPT !.status = NotCalled]

NotCalled2d ==
    [status |-> NotCalled, msg |-> "", hist |-> <<>>, shape |-> <<>>, edges |-> <<>>,
     check_input |-> FALSE]

(***************************************************************************)
(* Before a call: a D x N sample is at hand, there is no result.           *)
(***************************************************************************)
NoCall ==
    /\ bins = [kind |-> "none", val |-> <<>>]
    /\ range = NoRange
    /\ weights = NoneVal
    /\ remove_overflow = TRUE
    /\ out = NotCalledDD
    /\ out2d = NotCalled2d
    /\ range_after = NoRange

InitHist ==
    /\ D \in 1..MaxD
    /\ N \in 0..MaxN
    /\ sample \in Samples(D, N)
    /\ NoCall

IdleHist ==
    /\ D = 1 /\ N = 0 /\ sample = <<<<>>>>
    /\ bins = [kind |-> "none", val |-> <<>>]
    /\ range = NoRange
    /\ weights = NoneVal
    /\ remove_overflow = TRUE
    /\ out = NotCalledDD
    /\ out2d = NotCalled2d
    /\ range_after = NoRange

(***************************************************************************)
(* The calls.                                                              *)
(***************************************************************************)
\* torch.empty leaves entries unwritten only when fewer edge tensors than
\* dimensions were given
ReadsUninit(d, b) == b.kind = "seq_edges" /\ Len(b.val) < d

\* histogramdd(sample, b, r, w, ro)
DoHistogramdd(b, r, w, ro) ==
    /\ bins' = b /\ range' = r /\ weights' = w /\ remove_overflow' = ro
    /\ \E uninit \in (IF ReadsUninit(D, b) THEN Garbage ELSE {0}) :
          /\ out' = Histogramdd(sample, D, N, b, r, w, ro, uninit)
          /\ range_after' = RangeAfter(r, out')
    /\ UNCHANGED <<D, N, sample, out2d>>
    /\ UNCHANGED <<mergeVars, trackVars, iterVars>>

\* a call with bin counts, and any range
CallHistogramdd ==
    /\ out.status = NotCalled
    /\ \E b \in UniformBins : \E r \in Ranges(D) :
       \E w \in {NoneVal, "w"} : \E ro \in BOOLEAN :
          DoHistogramdd(b, r, w, ro)

\* a call with explicit edges; such a call never reads range, and is drawn
\* with range=None only
CallHistogramddEdges ==
    /\ out.status = NotCalled
    /\ \E b \in EdgeBins :
       \E w \in {NoneVal, "w"} : \E ro \in BOOLEAN :
          DoHistogramdd(b, NoRange, w, ro)

\* the arguments histogram2d takes as well: a 2 x N sample, a pair of ints
\* and a pair of (min, max); histogramdd is called on them with its defaults
\* (no weights, overflow removed)
PairBins == {[kind |-> "seq_ints", val |-> v] : v \in [1..2 -> BinCounts]}

PairRanges ==
    {[kind |-> "seq", items |-> v, lo |-> <<>>, hi |-> <<>>] :
        v \in [1..2 -> {i \in RangeItems : ~i.absent}]}

CallHistogramddPair ==
    /\ out.status = NotCalled
    /\ D = 2
    /\ \E b \in PairBins : \E r \in PairRanges :
          DoHistogramdd(b, r, NoneVal, TRUE)

\* histogram2d is called after histogramdd, on the same arguments
Applies2d ==
    /\ D = 2
    /\ bins.kind = "seq_ints" /\ Len(bins.val) = 2
    /\ range.kind = "seq" /\ \A i \in 1..2 : ~range.items[i].absent
    /\ weights = NoneVal /\ remove_overflow

ZeroWidth == \E i \in 1..2 : range.items[i].lo = range.items[i].hi

CallHistogram2d ==
    /\ out.status # NotCalled
    /\ out2d.status = NotCalled
    /\ Applies2d
    /\ \E check_input \in BOOLEAN :
       \E ub \in (IF ZeroWidth /\ N > 0 THEN Garbage ELSE {0}) :
          out2d' = Histogram2d(sample, N, bins.val, range.items, check_input, ub)
    /\ UNCHANGED <<D, N, sample, bins, range, weights, remove_overflow, out,
                   range_after>>
    /\ UNCHANGED <<mergeVars, trackVars, iterVars>>

(***************************************************************************)
(* Merging the BatchGradTransforms requests of the quantities due on a     *)
(* step (Cockpit._merge_batch_grad_transforms).  A request is its          *)
(* get_transforms() mapping, a set of <<name, definition>> pairs with one  *)
(* pair per name; a definition is the identity of the function object.     *)
(***************************************************************************)
TransformNames == {"x", "y"}

TransformDefs == {"f", "g"}

IsMapping(r) == \A p \in r : \A q \in r : p[1] = q[1] => p = q

Requests == {r \in SUBSET (TransformNames \X TransformDefs) : IsMapping(r)}

\* a merge that refuses a name two requests share, whatever they bind it to
MergeRejectsSharedNames(reqs) ==
    LET pairs == UNION {reqs[i] : i \in 1..Len(reqs)}
    IN  IF \E i \in 1..Len(reqs) : \E j \in (i + 1)..Len(reqs) :
              \E p \in reqs[i] : \E q \in reqs[j] : p[1] = q[1]
        THEN [status |-> "ValueError", transforms |-> {}]
        ELSE [status |-> "ok", transforms |-> pairs]

\* the pairs of all requests; a name bound to two definitions is a conflict
MergeBatchGradTransforms(reqs) ==
    LET pairs == UNION {reqs[i] : i \in 1..Len(reqs)}
    IN  IF ~IsMapping(pairs)
        THEN [status |-> "ValueError", transforms |-> {}]
        ELSE [status |-> "ok", transforms |-> pairs]

NotMerged == [status |-> NotCalled, transforms |-> {}]

InitMerge ==
    /\ requests \in UNION {[1..n -> Requests] : n \in 1..MaxRequests}
    /\ merged = NotMerged
    /\ remerged = NotMerged

IdleMerge ==
    /\ requests = <<>>
    /\ merged = NotMerged
    /\ remerged = NotMerged

CallMerge ==
    /\ merged.status = NotCalled
    /\ merged' = MergeBatchGradTransforms(requests)
    /\ UNCHANGED <<requests, remerged>>
    /\ UNCHANGED <<histVars, trackVars, iterVars>>

\* the merged request merged once more, with itself and with its inputs
CallMergeAgain ==
    /\ merged.status = "ok"
    /\ remerged.status = NotCalled
    /\ remerged' = MergeBatchGradTransforms(
                       <<merged.transforms, merged.transforms>> \o requests)
    /\ UNCHANGED <<requests, merged>>
    /\ UNCHANGED <<histVars, trackVars, iterVars>>

(***************************************************************************)
(* The quantities and their time series.  A quantity owns a schedule       *)
(* (linear: due when (step - offset) mod interval = 0) and an output       *)
(* mapping from step to value, here a set of <<step, value>> pairs.        *)
(***************************************************************************)
Quantities == {"q1", "q2"}

TrackValues == {"a", "b"}

Schedules == [interval : 1..MaxInterval, offset : 0..MaxOffset]

\* schedules.linear(interval, offset)
IsDue(sched, step) == (step - sched.offset) % sched.interval = 0

\* Quantity.should_compute(step)
ShouldCompute(q, step) == IsDue(schedule[q], step)

\* output[step] = value
SetItem(series, step, value) ==
    {p \in series : p[1] # step} \cup {<<step, value>>}

\* a compute that stores a value on every step
ComputeEveryStep(q, series, step, value) == SetItem(series, step, value)

\* Quantity.compute(step): _compute runs and its value is stored on a due
\* step, nothing happens on another step
Compute(q, series, step, value) ==
    IF ShouldCompute(q, step) THEN SetItem(series, step, value) ELSE series

InitTrack ==
    /\ schedule \in [Quantities -> Schedules]
    /\ output = [q \in Quantities |-> {}]
    /\ processed = {}
    /\ last_step = 0 - 1

IdleTrack ==
    /\ schedule = [q \in Quantities |-> [interval |-> 1, offset |-> 0]]
    /\ output = [q \in Quantities |-> {}]
    /\ processed = {}
    /\ last_step = 0 - 1

\* one tracked iteration: every quantity is polled with the step
Track ==
    \E step \in (last_step + 1)..MaxStep :
    \E value \in [Quantities -> TrackValues] :
       /\ output' = [q \in Quantities |-> Compute(q, output[q], step, value[q])]
       /\ processed' = processed \cup {step}
       /\ last_step' = step
       /\ UNCHANGED schedule
       /\ UNCHANGED <<histVars, mergeVars, iterVars>>

(***************************************************************************)
(* The tracking functions of tracking.py.  iter_tracking maps a signal     *)
(* name to the list of the values appended so far.  A tracking function is *)
(* an operator from the mapping to [status, tracking]: the exception it    *)
(* raised, if any, and the mapping it left.  A per-parameter list is a     *)
(* sequence of NumParams numbers; alpha is [none, v], none for None.       *)
(***************************************************************************)
Signals ==
    {"f0", "f1", "var_f0", "var_f1", "df0", "df1", "var_df0", "var_df1",
     "grad_norms", "dtravel", "trace", "max_ev", "d2init", "alpha"}

Points == {"0", "1"}

TrackVals == 1..MaxTrackVal

ParamLists == [1..NumParams -> TrackVals]

LearningRates == 1..MaxRate

Alphas ==
    {[none |-> TRUE, v |-> 0]} \cup {[none |-> FALSE, v |-> a] : a \in TrackVals}

\* eigsh either converges to an eigenvalue or raises ArpackNoConvergence
EigshOutcomes ==
    {[converged |-> FALSE, value |-> 0]}
    \cup {[converged |-> TRUE, value |-> a] : a \in TrackVals}

\* self.iter_tracking[s].append(v)
AppendTo(it, s, v) == [it EXCEPT ![s] = Append(@, v)]

Done(it) == [status |-> "ok", tracking |-> it]

Raised(it, e) == [status |-> e, tracking |-> it]

\* self.iter_tracking[s][-1]
LastOf(it, s) == it[s][Len(it[s])]

TrackF(it, batch_loss, point) == Done(AppendTo(it, "f" \o point, batch_loss))

TrackVarF(it, var, point) == Done(AppendTo(it, "var_f" \o point, var))

TrackDf(it, dot, point) == Done(AppendTo(it, "df" \o point, dot))

TrackVarDf(it, var, point) == Done(AppendTo(it, "var_df" \o point, var))

TrackGradNorms(it, norms) == Done(AppendTo(it, "grad_norms", norms))

\* grad_norms[-1] is read first: an IndexError when the list is empty
TrackDtravel(it, learning_rate) ==
    IF it["grad_norms"] = <<>>
    THEN Raised(it, "IndexError")
    ELSE LET g == LastOf(it, "grad_norms")
         IN  Done(AppendTo(it, "dtravel",
                           [i \in 1..Len(g) |-> g[i] * learning_rate]))

TrackTrace(it, traces) == Done(AppendTo(it, "trace", traces))

\* a track_ev that records a placeholder when the solver fails
TrackEvPlaceholder(it, eig) ==
    IF eig.converged
    THEN Done(AppendTo(it, "max_ev", eig.value))
    ELSE Raised(AppendTo(it, "max_ev", eig.value), "ArpackNoConvergence")

\* the value is appended on line 120, after eigsh returned on line 118
TrackEv(it, eig) ==
    IF eig.converged
    THEN Done(AppendTo(it, "max_ev", eig.value))
    ELSE Raised(it, "ArpackNoConvergence")

TrackD2init(it, dists) == Done(AppendTo(it, "d2init", dists))

\* the signals track_alpha reads the last entry of
AlphaInputs ==
    {"dtravel", "f0", "f1", "df0", "df1", "var_f0", "var_f1", "var_df0", "var_df1"}

\* a track_alpha that records nothing when there is no quadratic fit
TrackAlphaSkipsNone(it, alpha) ==
    IF \E s \in AlphaInputs : it[s] = <<>>
    THEN Raised(it, "IndexError")
    ELSE IF alpha.none THEN Done(it) ELSE Done(AppendTo(it, "alpha", alpha))

\* alpha is what _get_alpha returned for the last entries, None included
TrackAlpha(it, alpha) ==
    IF \E s \in AlphaInputs : it[s] = <<>>
    THEN Raised(it, "IndexError")
    ELSE Done(AppendTo(it, "alpha", alpha))

NoTrackingCall ==
    [fn |-> NotCalled, point |-> "", status |-> "ok", solves |-> 0,
     before |-> [s \in Signals |-> <<>>]]

\* at run start every signal is empty; after one whole iteration every
\* signal holds one entry
InitIter ==
    /\ \/ iter_tracking = [s \in Signals |-> <<>>]
       \/ \E a \in TrackVals : \E al \in Alphas :
             iter_tracking = [s \in Signals |->
                 IF s \in {"f0", "f1", "var_f0", "var_f1", "max_ev"} THEN <<a>>
                 ELSE IF s = "alpha" THEN <<al>>
                 ELSE <<[i \in 1..NumParams |-> a]>>]
    /\ last_call = NoTrackingCall
    /\ ncalls = 0

IdleIter ==
    /\ iter_tracking = [s \in Signals |-> <<>>]
    /\ last_call = NoTrackingCall
    /\ ncalls = 0

\* one call of a tracking function, res what it gave
TrackingCall(fn, point, solves, res) ==
    /\ ncalls' = ncalls + 1
    /\ last_call' = [fn |-> fn, point |-> point, status |-> res.status,
                     solves |-> solves, before |-> iter_tracking]
    /\ iter_tracking' = res.tracking
    /\ UNCHANGED <<histVars, mergeVars, trackVars>>

CallTrackF ==
    /\ ncalls < MaxCalls
    /\ \E v \in TrackVals : \E pt \in Points :
           TrackingCall("track_f", pt, 0, TrackF(iter_tracking, v, pt))

CallTrackVarF ==
    /\ ncalls < MaxCalls
    /\ \E v \in TrackVals : \E pt \in Points :
           TrackingCall("track_var_f", pt, 0, TrackVarF(iter_tracking, v, pt))

CallTrackDf ==
    /\ ncalls < MaxCalls
    /\ \E v \in ParamLists : \E pt \in Points :
           TrackingCall("track_df", pt, 0, TrackDf(iter_tracking, v, pt))

CallTrackVarDf ==
    /\ ncalls < MaxCalls
    /\ \E v \in ParamLists : \E pt \in Points :
           TrackingCall("track_var_df", pt, 0, TrackVarDf(iter_tracking, v, pt))

CallTrackGradNorms ==
    /\ ncalls < MaxCalls
    /\ \E v \in ParamLists :
           TrackingCall("track_grad_norms", "", 0, TrackGradNorms(iter_tracking, v))

CallTrackDtravel ==
    /\ ncalls < MaxCalls
    /\ \E lr \in LearningRates :
           TrackingCall("track_dtravel", "", 0, TrackDtravel(iter_tracking, lr))

CallTrackTrace ==
    /\ ncalls < MaxCalls
    /\ \E v \in ParamLists :
           TrackingCall("track_trace", "", 0, TrackTrace(iter_tracking, v))

\* eigsh is called once, whatever it gives
CallTrackEv ==
    /\ ncalls < MaxCalls
    /\ \E eig \in EigshOutcomes :
           TrackingCall("track_ev", "", 1, TrackEv(iter_tracking, eig))

CallTrackD2init ==
    /\ ncalls < MaxCalls
    /\ \E v \in ParamLists :
           TrackingCall("track_d2init", "", 0, TrackD2init(iter_tracking, v))

CallTrackAlpha ==
    /\ ncalls < MaxCalls
    /\ \E al \in Alphas :
           TrackingCall("track_alpha", "", 0, TrackAlpha(iter_tracking, al))

(***************************************************************************)
(* The specifications: the histogram calls, the merge, the tracking.       *)
(***************************************************************************)
Init == InitHist /\ IdleMerge /\ IdleTrack /\ IdleIter

Next ==
    \/ CallHistogramdd
    \/ CallHistogramddEdges

Spec == Init /\ [][Next]_vars

\* histogramdd and histogram2d on the same arguments
InitC == InitHist /\ D = 2 /\ IdleMerge /\ IdleTrack /\ IdleIter

NextC ==
    \/ CallHistogramddPair
    \/ CallHistogram2d

SpecCompare == InitC /\ [][NextC]_vars

InitM == IdleHist /\ InitMerge /\ IdleTrack /\ IdleIter

NextM ==
    \/ CallMerge
    \/ CallMergeAgain

SpecMerge == InitM /\ [][NextM]_vars

InitT == IdleHist /\ IdleMerge /\ InitTrack /\ IdleIter

NextT == Track

SpecTrack == InitT /\ [][NextT]_vars

\* the tracking functions called in any order
InitI == IdleHist /\ IdleMerge /\ IdleTrack /\ InitIter

NextI ==
    \/ CallTrackF
    \/ CallTrackVarF
    \/ CallTrackDf
    \/ CallTrackVarDf
    \/ CallTrackGradNorms
    \/ CallTrackDtravel
    \/ CallTrackTrace
    \/ CallTrackEv
    \/ CallTrackD2init
    \/ CallTrackAlpha

SpecIter == InitI /\ [][NextI]_vars

(***************************************************************************)
(* Properties of histogramdd and histogram2d.                              *)
(***************************************************************************)
Called == out.status # NotCalled

Returned == out.status = "ok"

\* the bins argument gives as many dimensions as the sample has
BinsMatchSample == Len(out.counts) = D

Total(hist) == SeqSum(hist)

\* C1: a call on uniform bins that keeps the overflow bins returns counts
\* that add up to N, one cell for every index of the shape bins + 2: every
\* observation is counted once, in range or in an under/overflow bin.
C1_TotalIsN ==
    (Returned /\ ~out.custom /\ ~remove_overflow) =>
        /\ Total(out.hist) = N
        /\ out.shape = [i \in 1..Len(out.counts) |-> out.counts[i] + 2]
        /\ Len(out.hist) = SeqProd(out.shape)

\* C1 witness: a returned 2-D histogram with the overflow bins kept, of two
\* observations in the same cell of which one coordinate overflows.
C1_Witness ==
    /\ Returned /\ ~out.custom /\ ~remove_overflow
    /\ D = 2 /\ N = 2 /\ BinsMatchSample
    /\ \A d \in 1..D : out.k[d][1] = out.k[d][2]
    /\ out.k[1][1] = out.counts[1] + 1
    /\ out.k[2][1] \in 1..out.counts[2]

InClosedRange(d, j) == out.lo[d] <= sample[d][j] /\ sample[d][j] <= out.hi[d]

InHalfOpenRange(d, j) == out.lo[d] <= sample[d][j] /\ sample[d][j] < out.hi[d]

Positive2d == bins.val[1] > 0 /\ bins.val[2] > 0

ProperRange2d == \A i \in 1..2 : range.items[i].lo < range.items[i].hi

Called2d == out2d.status # NotCalled /\ ~out2d.check_input

\* C3 (as claimed): histogram2d gives the counts of histogramdd with the
\* overflow bins removed, for every sample, positive bin counts and explicit
\* range (min < max), observations on a bound or outside the range included.
C3_Original ==
    (Called2d /\ Positive2d /\ ProperRange2d) =>
        /\ out2d.status = "ok"
        /\ Returned
        /\ out2d.hist = out.hist

AllInHalfOpenRange2d ==
    \A i \in 1..2 : \A j \in 1..N :
        /\ range.items[i].lo <= sample[i][j]
        /\ sample[i][j] < range.items[i].hi

\* C3 (amended): for a range with min < max in both dimensions and
\* observations with min <= x < max in both, histogram2d returns the counts
\* and the shape of histogramdd with the overflow bins removed.
C3_SameCountsInRange ==
    (Called2d /\ Positive2d /\ ProperRange2d /\ AllInHalfOpenRange2d) =>
        /\ out2d.status = "ok"
        /\ Returned
        /\ out2d.hist = out.hist
        /\ out2d.shape = out.shape

\* C3 witness: both calls returned for two in-range observations in
\* different cells of a histogram with different bin counts per axis.
C3_Witness ==
    /\ Called2d /\ Positive2d /\ ProperRange2d /\ AllInHalfOpenRange2d
    /\ out2d.status = "ok" /\ Returned
    /\ N = 2 /\ bins.val[1] # bins.val[2]
    /\ \E d \in 1..2 : out.k[d][1] # out.k[d][2]

\* the range of dimension i is absent
RangeAbsent(i) ==
    \/ range.kind = "none"
    \/ range.kind = "seq" /\ range.items[i].absent

\* the call came to resolve the range (uniform bins that passed validation)
ReachedRange == Called /\ ~out.custom /\ out.stage # "bins"

\* C4 (as claimed): where the range of dimension i is absent, the minimum
\* and the maximum of row i of the sample are the range of dimension i,
\* with range=None and with a sequence whose i-th item is None, for N >= 1.
C4_Original ==
    (ReachedRange /\ N >= 1) =>
        \A i \in 1..D : RangeAbsent(i) =>
            /\ out.stage # "range"
            /\ out.lo0[i] = SetMin(RowValues(sample, N, i))
            /\ out.hi0[i] = SetMax(RowValues(sample, N, i))

\* the call has no other reason to fail than its range: no weights, bin
\* counts for every dimension of the sample, all positive
WellFormedBins ==
    /\ weights = NoneVal
    /\ BinsMatchSample
    /\ \A i \in 1..D : out.counts[i] > 0

\* the range was resolved and padded
Padded == Called /\ ~out.custom /\ out.lo # <<>>

Singular(i) == out.lo0[i] = out.hi0[i]

\* C5: a dimension whose resolved range is one point v does not make the
\* call fail: its range becomes [v - 0.5, v + 0.5], its edges start and end
\* there, and an observation equal to v gets a bin that is kept.
C5_SingularRangePadded ==
    (Padded /\ WellFormedBins /\ ~AnyInverted(out.lo0, out.hi0)) =>
        /\ Returned
        /\ \A i \in 1..D : Singular(i) =>
              /\ out.lo[i] = out.lo0[i] - Half
              /\ out.hi[i] = out.hi0[i] + Half
              /\ out.edges[i].num[1] = out.lo[i] * out.edges[i].den
              /\ out.edges[i].num[out.counts[i] + 1] = out.hi[i] * out.edges[i].den
              /\ \A j \in 1..N : sample[i][j] = out.lo0[i] =>
                    out.k[i][j] \in 1..out.counts[i]

\* C5 witness: a returned histogram of two dimensions, one of them with a
\* range of one point derived from the sample, with several bins.
C5_Witness ==
    /\ Padded /\ WellFormedBins /\ Returned /\ remove_overflow
    /\ D = 2 /\ N = 2
    /\ range.kind = "none"
    /\ Singular(1) /\ ~Singular(2)
    /\ out.counts[1] = 2
    /\ Total(out.hist) >= 1

\* the call came to bin the observations
ReachedBinning == out.stage \in {"binning", "assert", "reshape", "core", "done"}

\* C6: a resolved bin count <= 0 and, after the padding, a range with
\* max < min end the call with a ValueError and no histogram; a call that
\* comes to bin the observations has bins > 0 and max > min everywhere, so
\* the bin width never divides by zero.
C6_Validation ==
    /\ (Called /\ out.counts # <<>> /\ AnyNonPositive(out.counts)) =>
          (out.status = "ValueError" /\ out.hist = <<>>)
    /\ (Padded /\ AnyInverted(out.lo, out.hi)) =>
          (out.status = "ValueError" /\ out.hist = <<>>)
    /\ ReachedBinning =>
          /\ \A i \in 1..Len(out.counts) : out.counts[i] > 0
          /\ ~out.custom => \A d \in 1..D : out.hi[d] > out.lo[d]

\* C6 witness: a call refused for an inverted range in one dimension, after
\* the padding of a one-point range in the other.
C6_Witness ==
    /\ Padded /\ D = 2
    /\ out.status = "ValueError" /\ out.msg = "range"
    /\ Singular(1)
    /\ out.lo[2] > out.hi[2]

\* the number of dimensions the bins argument describes
BinsDims == IF bins.kind \in {"none", "int"} THEN D ELSE Len(bins.val)

\* C7 (as claimed): a bins argument that describes another number of
\* dimensions than the sample has ends the call with a ValueError, in every
\* form: a tensor of counts, a sequence of ints, a sequence of edge arrays,
\* a 2-D tensor of edges.
C7_Original ==
    (Called /\ BinsDims # D) => out.status = "ValueError"

\* C8 (as claimed): a call with weights always ends as a refused weighted
\* request, whatever the other arguments are.
C8_Original ==
    (Called /\ weights # NoneVal) => out.status = "AssertionError"

(***************************************************************************)
(* Properties of the merge and of the time series.                         *)
(***************************************************************************)
\* two requests bind one name to different definitions
Conflict ==
    \E i \in 1..Len(requests) : \E j \in 1..Len(requests) :
    \E p \in requests[i] : \E q \in requests[j] :
        p[1] = q[1] /\ p[2] # q[2]

\* C9: the merge fails with a ValueError exactly when two requests bind one
\* name to different definitions; otherwise its mapping is the union of the
\* mappings of its inputs, every name with the definition it had there, and
\* merging the result again (with itself, with its inputs) changes nothing.
C9_Merge ==
    /\ merged.status # NotCalled =>
          /\ (merged.status = "ValueError") <=> Conflict
          /\ (merged.status = "ok") <=> ~Conflict
    /\ merged.status = "ok" =>
          /\ \A p \in merged.transforms :
                \E i \in 1..Len(requests) : p \in requests[i]
          /\ \A i \in 1..Len(requests) : requests[i] \subseteq merged.transforms
          /\ IsMapping(merged.transforms)
    /\ remerged.status # NotCalled => remerged = merged

\* C9 witness: two different requests that share a name with one definition
\* were merged, and the result was merged again.
C9_Witness ==
    /\ Len(requests) = 2
    /\ requests[1] # requests[2]
    /\ requests[1] \cap requests[2] # {}
    /\ merged.status = "ok"
    /\ Cardinality(merged.transforms) = 2
    /\ remerged.status = "ok"

Keys(series) == {p[1] : p \in series}

\* the keys of every series are the processed steps its schedule was due on,
\* one entry per key
KeysAreDueSteps ==
    \A q \in Quantities :
        /\ Keys(output[q]) = {s \in processed : ShouldCompute(q, s)}
        /\ Cardinality(output[q]) = Cardinality(Keys(output[q]))

\* a tracked step adds one entry keyed by the step to a series that is due,
\* and leaves every other series and every earlier entry as it was
OwnSeriesOnly ==
    \A q \in Quantities :
        /\ output[q] \subseteq output'[q]
        /\ ShouldCompute(q, last_step') =>
              /\ Cardinality(output'[q]) = Cardinality(output[q]) + 1
              /\ Keys(output'[q]) = Keys(output[q]) \cup {last_step'}
        /\ ~ShouldCompute(q, last_step') => output'[q] = output[q]

\* C10: after any run of tracked iterations with increasing steps, the keys
\* of a quantity's series are the processed steps on which it was due; a
\* due step adds one entry, another step adds none, and no series changes
\* but by the computation of its own quantity.
C10_SeriesKeys == []KeysAreDueSteps /\ [][OwnSeriesOnly]_vars

\* C10 witness: steps were skipped, and a quantity was due on some of the
\* processed steps and not on others.
C10_Witness ==
    /\ Cardinality(processed) >= 2
    /\ \E s \in 0..last_step : s \notin processed
    /\ \E q \in Quantities :
          /\ output[q] # {}
          /\ Cardinality(output[q]) < Cardinality(processed)
    /\ \E q \in Quantities : output[q] # output["q1"]

(***************************************************************************)
(* Properties of the tracking functions.                                   *)
(***************************************************************************)
\* C11: track_dtravel called before track_grad_norms never crashes, the
\* first iteration with an empty grad_norms included: it appends a value
\* to dtravel whatever the tracking state is.
C11_Original ==
    last_call.fn = "track_dtravel" =>
        /\ last_call.status = "ok"
        /\ Len(iter_tracking["dtravel"]) = Len(last_call.before["dtravel"]) + 1

\* the signal a tracking function appends to
TargetSignal(call) ==
    CASE call.fn = "track_f" -> "f" \o call.point
      [] call.fn = "track_var_f" -> "var_f" \o call.point
      [] call.fn = "track_df" -> "df" \o call.point
      [] call.fn = "track_var_df" -> "var_df" \o call.point
      [] call.fn = "track_grad_norms" -> "grad_norms"
      [] call.fn = "track_dtravel" -> "dtravel"
      [] call.fn = "track_trace" -> "trace"
      [] call.fn = "track_ev" -> "max_ev"
      [] call.fn = "track_d2init" -> "d2init"
      [] call.fn = "track_alpha" -> "alpha"

IsPrefix(s, u) == Len(s) <= Len(u) /\ SubSeq(u, 1, Len(s)) = s

\* the last call appended one value to its signal and touched nothing else
OneAppend ==
    (last_call.fn # NotCalled /\ last_call.status = "ok") =>
        LET s == TargetSignal(last_call)
        IN  /\ s \in Signals
            /\ Len(iter_tracking[s]) = Len(last_call.before[s]) + 1
            /\ IsPrefix(last_call.before[s], iter_tracking[s])
            /\ \A o \in Signals \ {s} : iter_tracking[o] = last_call.before[o]

PrefixStep == \A s \in Signals : IsPrefix(iter_tracking[s], iter_tracking'[s])

\* C12: every successful call of a tracking function appends one value to
\* one signal (the one suffixed with the point for track_f, track_var_f,
\* track_df, track_var_df; alpha for track_alpha, a None value included)
\* and leaves every other signal and every earlier entry as it was; over
\* any sequence of calls a signal's earlier content is a prefix of its
\* later content.
C12_AppendOnly == []OneAppend /\ [][PrefixStep]_vars

\* C12 witness: track_alpha succeeded without a quadratic fit and appended
\* None after an earlier entry of alpha.
C12_Witness ==
    /\ last_call.fn = "track_alpha"
    /\ last_call.status = "ok"
    /\ Len(iter_tracking["alpha"]) >= 2
    /\ LastOf(iter_tracking, "alpha").none
    /\ ncalls >= 2

\* a failed track_ev called the solver once and left everything as it was
FailedEvLeavesTracking ==
    (last_call.fn = "track_ev" /\ last_call.status # "ok") =>
        /\ last_call.status = "ArpackNoConvergence"
        /\ last_call.solves = 1
        /\ iter_tracking = last_call.before

\* a track_ev that succeeds right after a failed one appends at the
\* position the failed call would have used
EvAfterFailure ==
    (/\ last_call.fn = "track_ev" /\ last_call.status # "ok"
     /\ last_call'.fn = "track_ev" /\ last_call'.status = "ok") =>
        /\ Len(iter_tracking'["max_ev"]) = Len(last_call.before["max_ev"]) + 1
        /\ IsPrefix(last_call.before["max_ev"], iter_tracking'["max_ev"])

\* C13: when the eigensolver of track_ev fails, the failure is raised to
\* the caller after one solve, and iter_tracking is what it was before the
\* call: nothing is appended to max_ev or to any other signal, and a later
\* successful track_ev appends at the position the failed call would have
\* used.
C13_EvFailure == []FailedEvLeavesTracking /\ [][EvAfterFailure]_vars

\* C13 witness: the solver failed in a track_ev that came after other
\* calls, with entries of max_ev already there.
C13_Witness ==
    /\ last_call.fn = "track_ev"
    /\ last_call.status = "ArpackNoConvergence"
    /\ iter_tracking["max_ev"] # <<>>
    /\ ncalls >= 2

\* C14: histogramdd never modifies the arguments of its caller: after any
\* call, returned or raised, the range the caller passed (a tensor or a
\* sequence, a range with min = max in some dimension included) holds the
\* values it held before the call.
C14_Original == Called => range_after = range

====
